---- MODULE Spec2Model ----
(***************************************************************************)
(* Model of the N-label printer: printer.print_labels (stream builder,     *)
(* socket transport, exception mapping) and its caller                     *)
(* Application.start_printing (input validation, result display).          *)
(*                                                                         *)
(* Text is modelled as a sequence of tokens: a word, a punctuation mark or *)
(* a single digit character is one token, so that substring tests and      *)
(* number formatting are computed rather than assumed.                     *)
(***************************************************************************)
EXTENDS Integers, Sequences, FiniteSets, TLC

\* ---------------------------------------------------------------- bounds
\* longest text typed into number_entry
MaxLen == 2
\* number of clicks on the Print button
MaxCalls == 2

\* ------------------------------------------------------------- constants
PRINTER_IP == "192.168.1.193"
PRINTER_PORT == 9100

\* characters typed into the entry field: ASCII digits, a sign, a letter and
\* SUPERSCRIPT TWO (U+00B2), a character of Unicode numeric type Digit
Chars == {"0", "1", "2", "-", "a", "^2"}
AsciiDigits == {"0", "1", "2", "3", "4", "5", "6", "7", "8", "9"}
\* characters for which str.isdigit() is true
UnicodeDigits == AsciiDigits \cup {"^2"}

DigitChar == <<"0", "1", "2", "3", "4", "5", "6", "7", "8", "9">>

\* ------------------------------------------------------ text primitives
\* str(i) for an integer i >= 0: plain decimal digits, most significant first
RECURSIVE ToStr(_)
ToStr(i) ==
    IF i < 10 THEN <<DigitChar[i + 1]>>
    ELSE ToStr(i \div 10) \o <<DigitChar[(i % 10) + 1]>>

DigitValue(c) == CHOOSE d \in 0..9 : DigitChar[d + 1] = c

\* int(s) succeeds on a non-empty run of decimal digits
IntParses(str) == Len(str) > 0 /\ \A k \in 1..Len(str) : str[k] \in AsciiDigits

RECURSIVE IntValue(_)
IntValue(str) ==
    IF Len(str) = 0 THEN 0
    ELSE 10 * IntValue(SubSeq(str, 1, Len(str) - 1)) + DigitValue(str[Len(str)])

\* str.isdigit(): non-empty and every character is a digit character
isdigit(str) == Len(str) > 0 /\ \A k \in 1..Len(str) : str[k] \in UnicodeDigits

\* pat in msg (Python's substring test)
Contains(msg, pat) ==
    \E k \in 1..(Len(msg) - Len(pat) + 1) : SubSeq(msg, k, k + Len(pat) - 1) = pat

RECURSIVE SeqsUpTo(_)
SeqsUpTo(k) ==
    IF k = 0 THEN {<<>>}
    ELSE LET shorter == SeqsUpTo(k - 1)
         IN shorter \cup {Append(str, c) : str \in shorter, c \in Chars}

Inputs == SeqsUpTo(MaxLen)

\* -------------------------------------------------------- command stream
Line(cmd) == [cmd |-> cmd, arg |-> <<>>]
NL == Line("\n")

setup_commands ==
    << Line("SET \"PRINT METHOD\" \"DIRECT THERMAL\""),
       Line("SET \"MEDIA TYPE\" \"GAP\""),
       Line("SET \"MEDIA WIDTH\" 840"),
       Line("SET \"MEDIA LENGTH\" 251") >>

\* mutant of label_commands: the label text counts from 0
label_commands_zero_based(i) ==
    << Line("FONT \"Swiss 721\""),
       Line("MAGNIFY 10, 10"),
       Line("JUSTIFY CENTER"),
       [cmd |-> "TEXT", arg |-> ToStr(i - 1)],
       Line("PRINT"),
       Line("FORMFEED") >>

\* the command group of label i; the TEXT line carries str(i)
label_commands(i) ==
    << Line("FONT \"Swiss 721\""),
       Line("MAGNIFY 10, 10"),
       Line("JUSTIFY CENTER"),
       [cmd |-> "TEXT", arg |-> ToStr(i)],
       Line("PRINT"),
       Line("FORMFEED") >>

\* the groups of labels lo..hi in ascending order (the range is halved to
\* keep the evaluation shallow)
RECURSIVE LabelRange(_, _)
LabelRange(lo, hi) ==
    IF lo > hi THEN <<>>
    ELSE IF lo = hi THEN label_commands(lo)
    ELSE LET mid == (lo + hi) \div 2
         IN LabelRange(lo, mid) \o LabelRange(mid + 1, hi)

\* print_commands after the loop
\*   for i in range(1, n + 1): print_commands.extend(label_commands)
print_commands(count) == LabelRange(1, count)

\* lines[lo..hi], each followed by the separator
RECURSIVE Terminated(_, _, _)
Terminated(lines, lo, hi) ==
    IF lo > hi THEN <<>>
    ELSE IF lo = hi THEN <<lines[lo], NL>>
    ELSE LET mid == (lo + hi) \div 2
         IN Terminated(lines, lo, mid) \o Terminated(lines, mid + 1, hi)

\* "\n".join(lines) + "\n"
Join(lines) ==
    IF Len(lines) = 0 THEN <<NL>> ELSE Terminated(lines, 1, Len(lines))

\* mutant of BuildStream: the setup lines follow the label groups
BuildStream_SetupLast(count) == Join(print_commands(count) \o setup_commands)

\* setup_commands + print_commands, joined
BuildStream(count) == Join(setup_commands \o print_commands(count))

\* ------------------------------------------------------------ exceptions
NoExc == [type |-> "none", text |-> <<>>]

Exc(type, text) == [type |-> type, text |-> text]

SocketTimeout == Exc("socket.timeout", <<"timed", "out">>)
\* errno ETIMEDOUT reported by the operating system
ETimedOut == Exc("TimeoutError", <<"[Errno 110]", "Connection", "timed", "out">>)
ConnRefused == Exc("ConnectionRefusedError", <<"[Errno 111]", "Connection", "refused">>)
NoRoute == Exc("OSError", <<"[Errno 113]", "No", "route", "to", "host">>)
ConnReset == Exc("ConnectionResetError", <<"[Errno 104]", "Connection", "reset", "by", "peer">>)
BrokenPipe == Exc("BrokenPipeError", <<"[Errno 32]", "Broken", "pipe">>)
TooManyFiles == Exc("OSError", <<"[Errno 24]", "Too", "many", "open", "files">>)
OutOfMemory == Exc("MemoryError", <<>>)

BuildErrors == {OutOfMemory}
SocketErrors == {TooManyFiles}
ConnectErrors == {SocketTimeout, ETimedOut, ConnRefused, NoRoute}
SendErrors == {SocketTimeout, ETimedOut, ConnReset, BrokenPipe}

\* the base class of each exception class
Base(type) ==
    CASE type = "socket.timeout" -> "OSError"
      [] type = "TimeoutError" -> "OSError"
      [] type = "ConnectionRefusedError" -> "OSError"
      [] type = "ConnectionResetError" -> "OSError"
      [] type = "BrokenPipeError" -> "OSError"
      [] type = "OSError" -> "Exception"
      [] type = "MemoryError" -> "Exception"
      [] type = "Exception" -> "BaseException"
      [] OTHER -> "object"

RECURSIVE SubClass(_, _)
SubClass(type, cls) ==
    IF type = cls THEN TRUE
    ELSE IF type \in {"object", "BaseException", "none"} THEN FALSE
    ELSE SubClass(Base(type), cls)


\* -------------------------------------------------------------- messages
TimeoutMessage ==
    <<"Connection", "timed", "out", ".", "Check", "printer", "IP", "(",
      PRINTER_IP, ")", "and", "network", ".">>

SocketMessage(e) == <<"Socket", "error", ":">> \o e.text

UnexpectedMessage(e) == <<"An", "unexpected", "error", "occurred", ":">> \o e.text

SuccessMessage(count) ==
    <<"Successfully", "sent", "print", "job", "for">> \o ToStr(count) \o <<"labels", ".">>

\* texts of status_label
StatusInitial == "Enter a number and click Print."
StatusInvalid == "Error: Please enter a positive whole number."
StatusSending == "Sending to printer..."
StatusSuccess(count) == <<"Successfully sent print job for {} labels.", count>>
StatusTimeout == "Error: Connection timed out. Check printer IP and network."
StatusNetwork == "Error: A network error occurred."
StatusUnexpected == "Error: An unexpected error occurred."

Status(text) == <<text, 0>>

\* ----------------------------------------------------------------- state
VARIABLES
    pc,                   \* position of the single thread of control
    calls,                \* clicks on Print handled or in progress
    timeout_alias,        \* socket.timeout is TimeoutError in this interpreter
    input_value,          \* start_printing: text read from number_entry
    num_to_print,         \* start_printing: int(input_value)
    status_label,         \* text shown by status_label
    callback_exc,         \* exception that left start_printing, or "none"
    n,                    \* print_labels: its argument
    full_command_string,  \* print_labels: the joined command stream
    sockets,              \* every socket created so far, in creation order
    s,                    \* print_labels: index of its socket, 0 before creation
    handed,               \* stream elements this call handed to the transport
    exc,                  \* print_labels: exception in flight
    failed_at,            \* print_labels: step that raised
    result,               \* the (success, message) pair returned
    branch                \* the return statement print_labels took

vars ==
    <<pc, calls, timeout_alias, input_value, num_to_print, status_label,
      callback_exc, n, full_command_string, sockets, s, handed, exc, failed_at,
      result, branch>>

NoResult == [success |-> FALSE, message |-> <<>>]

Init ==
    /\ pc = "idle"
    /\ calls = 0
    /\ timeout_alias \in BOOLEAN
    /\ input_value = <<>>
    /\ num_to_print = 0
    /\ status_label = Status(StatusInitial)
    /\ callback_exc = "none"
    /\ n = 0
    /\ full_command_string = <<>>
    /\ sockets = <<>>
    /\ s = 0
    /\ handed = 0
    /\ exc = NoExc
    /\ failed_at = "none"
    /\ result = NoResult
    /\ branch = "none"

\* ------------------------------------------------------- start_printing
\* if not input_value.isdigit() or int(input_value) <= 0: ... return
\* num_to_print = int(input_value)
Validate(input) ==
    IF ~isdigit(input) THEN "reject"
    ELSE IF ~IntParses(input) THEN "ValueError"
    ELSE IF IntValue(input) <= 0 THEN "reject"
    ELSE "ok"

\* the click handler up to the call of print_labels
StartPrinting(input) ==
    /\ pc = "idle"
    /\ calls < MaxCalls
    /\ calls' = calls + 1
    /\ input_value' = input
    /\ full_command_string' = <<>>
    /\ s' = 0
    /\ handed' = 0
    /\ exc' = NoExc
    /\ failed_at' = "none"
    /\ result' = NoResult
    /\ branch' = "none"
    /\ CASE Validate(input) = "reject" ->
              /\ status_label' = Status(StatusInvalid)
              /\ callback_exc' = "none"
              /\ pc' = "idle"
              /\ num_to_print' = 0
              /\ n' = 0
         [] Validate(input) = "ValueError" ->
              /\ callback_exc' = "ValueError"
              /\ pc' = "idle"
              /\ num_to_print' = 0
              /\ n' = 0
              /\ UNCHANGED status_label
         [] OTHER ->
              /\ num_to_print' = IntValue(input)
              /\ n' = IntValue(input)
              /\ status_label' = Status(StatusSending)
              /\ callback_exc' = "none"
              /\ pc' = "build"
    /\ UNCHANGED <<timeout_alias, sockets>>


\* --------------------------------------------------------- print_labels
\* isinstance(e, cls); socket.error is OSError, and socket.timeout is
\* TimeoutError where timeout_alias holds
IsInstance(e, cls) ==
    LET type == IF timeout_alias /\ e.type = "TimeoutError"
                THEN "socket.timeout" ELSE e.type
    IN SubClass(type, cls)

\* mutant of Handler: the socket.error clause comes first
Handler_SocketFirst(e) ==
    IF IsInstance(e, "OSError") THEN "socket"
    ELSE IF IsInstance(e, "socket.timeout") THEN "timeout"
    ELSE IF IsInstance(e, "Exception") THEN "generic"
    ELSE "none"

\* mutant of Handler: no clause for Exception
Handler_NoGeneric(e) ==
    IF IsInstance(e, "socket.timeout") THEN "timeout"
    ELSE IF IsInstance(e, "OSError") THEN "socket"
    ELSE "none"

\* the except clause that catches e, clauses tried in source order
Handler(e) ==
    IF IsInstance(e, "socket.timeout") THEN "timeout"
    ELSE IF IsInstance(e, "OSError") THEN "socket"
    ELSE IF IsInstance(e, "Exception") THEN "generic"
    ELSE "none"

\* the message each except clause returns
FailureMessage(h, e) ==
    CASE h = "timeout" -> TimeoutMessage
      [] h = "socket" -> SocketMessage(e)
      [] OTHER -> UnexpectedMessage(e)

\* the loop over range(1, n + 1) and the join
Build ==
    /\ pc = "build"
    /\ \/ /\ full_command_string' = BuildStream(n)
          /\ pc' = "socket"
          /\ UNCHANGED <<exc, failed_at>>
       \/ \E e \in BuildErrors :
             /\ exc' = e
             /\ failed_at' = "build"
             /\ pc' = "except"
             /\ UNCHANGED full_command_string
    /\ UNCHANGED <<calls, timeout_alias, input_value, num_to_print, status_label,
                   callback_exc, n, sockets, s, handed, result, branch>>

NewSocket == [state |-> "open", connected |-> FALSE, connects |-> 0, sends |-> 0]

\* with socket.socket(AF_INET, SOCK_STREAM) as s:  s.settimeout(5)
CreateSocket ==
    /\ pc = "socket"
    /\ \/ /\ sockets' = Append(sockets, NewSocket)
          /\ s' = Len(sockets) + 1
          /\ pc' = "connect"
          /\ UNCHANGED <<exc, failed_at>>
       \/ \E e \in SocketErrors :
             /\ exc' = e
             /\ failed_at' = "socket"
             /\ pc' = "except"
             /\ UNCHANGED <<sockets, s>>
    /\ UNCHANGED <<calls, timeout_alias, input_value, num_to_print, status_label,
                   callback_exc, n, full_command_string, handed, result, branch>>

\* mutant of ConnectFailPc: a failed connect is tried again
ConnectFailPc_Retry == "connect"

\* where control goes when s.connect raises: out of the with block
ConnectFailPc == "exit"

\* s.connect((PRINTER_IP, PRINTER_PORT))
Connect ==
    /\ pc = "connect"
    /\ \/ /\ sockets' = [sockets EXCEPT ![s].connects = @ + 1, ![s].connected = TRUE]
          /\ pc' = "send"
          /\ UNCHANGED <<exc, failed_at>>
       \/ \E e \in ConnectErrors :
             /\ sockets' = [sockets EXCEPT ![s].connects = @ + 1]
             /\ exc' = e
             /\ failed_at' = "connect"
             /\ pc' = ConnectFailPc
    /\ UNCHANGED <<calls, timeout_alias, input_value, num_to_print, status_label,
                   callback_exc, n, full_command_string, s, handed, result, branch>>

\* how much of the payload the transport took before sendall raised
PartialPoints(len) == {0, len \div 2, len - 1}

\* s.sendall(full_command_string.encode('utf-8'))
SendAll ==
    /\ pc = "send"
    /\ sockets' = [sockets EXCEPT ![s].sends = @ + 1]
    /\ \/ /\ handed' = Len(full_command_string)
          /\ UNCHANGED <<exc, failed_at>>
       \/ \E e \in SendErrors, k \in PartialPoints(Len(full_command_string)) :
             /\ handed' = k
             /\ exc' = e
             /\ failed_at' = "send"
    /\ pc' = "exit"
    /\ UNCHANGED <<calls, timeout_alias, input_value, num_to_print, status_label,
                   callback_exc, n, full_command_string, s, result, branch>>

\* mutant of CloseOnExit: the socket is closed on the success path only
CloseOnExit_SuccessOnly(sock, e) ==
    IF e = NoExc THEN [sock EXCEPT !.state = "closed"] ELSE sock

\* socket.__exit__: close the socket, whether or not an exception is in flight
CloseOnExit(sock, e) == [sock EXCEPT !.state = "closed"]

\* mutant of AfterExit: __exit__ swallows the exception
AfterExit_Swallow(e) == "return"

\* after __exit__ the exception, if any, goes on to the except clauses
AfterExit(e) == IF e = NoExc THEN "return" ELSE "except"

\* leaving the with block
WithExit ==
    /\ pc = "exit"
    /\ sockets' = [sockets EXCEPT ![s] = CloseOnExit(@, exc)]
    /\ pc' = AfterExit(exc)
    /\ UNCHANGED <<calls, timeout_alias, input_value, num_to_print, status_label,
                   callback_exc, n, full_command_string, s, handed, exc, failed_at,
                   result, branch>>

\* return (True, f"Successfully sent print job for {n} labels.")
ReturnSuccess ==
    /\ pc = "return"
    /\ result' = [success |-> TRUE, message |-> SuccessMessage(n)]
    /\ branch' = "success"
    /\ pc' = "returned"
    /\ UNCHANGED <<calls, timeout_alias, input_value, num_to_print, status_label,
                   callback_exc, n, full_command_string, sockets, s, handed, exc,
                   failed_at>>

\* the except clauses; an exception no clause catches leaves print_labels and
\* start_printing
Except ==
    /\ pc = "except"
    /\ IF Handler(exc) = "none"
       THEN /\ callback_exc' = exc.type
            /\ pc' = "idle"
            /\ UNCHANGED <<result, branch>>
       ELSE /\ result' = [success |-> FALSE,
                          message |-> FailureMessage(Handler(exc), exc)]
            /\ branch' = Handler(exc)
            /\ pc' = "returned"
            /\ UNCHANGED callback_exc
    /\ UNCHANGED <<calls, timeout_alias, input_value, num_to_print, status_label,
                   n, full_command_string, sockets, s, handed, exc, failed_at>>

\* ------------------------------------------- start_printing, the display
\* the text start_printing shows for a returned (success, message)
DisplayText(success, message, count) ==
    IF success THEN StatusSuccess(count)
    ELSE IF Contains(message, <<"Connection", "timed", "out">>) THEN Status(StatusTimeout)
    ELSE IF Contains(message, <<"Socket", "error">>) THEN Status(StatusNetwork)
    ELSE Status(StatusUnexpected)

Display ==
    /\ pc = "returned"
    /\ status_label' = DisplayText(result.success, result.message, num_to_print)
    /\ pc' = "idle"
    /\ UNCHANGED <<calls, timeout_alias, input_value, num_to_print, callback_exc, n,
                   full_command_string, sockets, s, handed, exc, failed_at, result,
                   branch>>

Next ==
    \/ \E input \in Inputs : StartPrinting(input)
    \/ Build
    \/ CreateSocket
    \/ Connect
    \/ SendAll
    \/ WithExit
    \/ ReturnSuccess
    \/ Except
    \/ Display

Spec == Init /\ [][Next]_vars


\* ============================================================== claims
\* the command lines of a stream, separators dropped
Lines(stream) == SelectSeq(stream, LAMBDA x : x # NL)

GroupSize == Len(label_commands(1))

\* print_labels has just built its stream: the loop and the join are done
\* and the socket is not yet created
StreamBuilt == pc = "socket"

\* C1: the stream built for n holds exactly n label groups (body length is n
\* times the group size), and the TEXT line of the i-th group, and no other
\* line of it, carries the decimal digits of i without leading zero, for
\* i = 1..n in ascending order.
C1_GroupsCarryIndex ==
    StreamBuilt =>
        LET lines == Lines(full_command_string)
            first == Len(setup_commands)
        IN /\ Len(lines) - first = n * GroupSize
           /\ \A i \in 1..n :
                 LET text == lines[first + (i - 1) * GroupSize + 4]
                 IN /\ text.cmd = "TEXT"
                    /\ IntParses(text.arg)
                    /\ IntValue(text.arg) = i
                    /\ text.arg[1] # "0"
           /\ \A k \in (first + 1)..Len(lines) :
                 (lines[k].cmd = "TEXT") <=> ((k - first) % GroupSize = 4)

\* a stream for a two-digit count has been built
C1_Witness ==
    /\ StreamBuilt
    /\ n >= 10
    /\ Len(Lines(full_command_string)) = Len(setup_commands) + n * GroupSize

\* C2: whatever n is, the stream starts with the four setup lines in source
\* order, each once, and none of them occurs again after the first group
\* starts.
C2_SetupFirst ==
    StreamBuilt =>
        LET lines == Lines(full_command_string)
        IN /\ Len(lines) >= 4
           /\ lines[1].cmd = "SET \"PRINT METHOD\" \"DIRECT THERMAL\""
           /\ lines[2].cmd = "SET \"MEDIA TYPE\" \"GAP\""
           /\ lines[3].cmd = "SET \"MEDIA WIDTH\" 840"
           /\ lines[4].cmd = "SET \"MEDIA LENGTH\" 251"
           /\ \A k \in 5..Len(lines), j \in 1..4 : lines[k] # lines[j]
           /\ \A k \in 1..Len(full_command_string) :
                 (full_command_string[k] = NL) <=> (k % 2 = 0)

\* a stream of several groups has been built
C2_Witness == StreamBuilt /\ n >= 2 /\ Len(full_command_string) > 0

\* the connect step ran out of its timeout in the current call
ConnectTimedOut == failed_at = "connect" /\ exc = SocketTimeout

\* C3 as stated: after a connect timeout the call returns failure in the
\* timeout category with a message naming both PRINTER_IP and PRINTER_PORT.
C3_Original ==
    (pc = "returned" /\ ConnectTimedOut) =>
        /\ result.success = FALSE
        /\ branch = "timeout"
        /\ Contains(result.message, <<PRINTER_IP>>)
        /\ Contains(result.message, ToStr(PRINTER_PORT))

\* C3 amended: after a connect timeout the call returns failure in the
\* timeout category with a message naming PRINTER_IP; the port is not in it.
C3_TimeoutNamesHost ==
    (pc = "returned" /\ ConnectTimedOut) =>
        /\ result.success = FALSE
        /\ branch = "timeout"
        /\ Contains(result.message, <<PRINTER_IP>>)
        /\ ~Contains(result.message, ToStr(PRINTER_PORT))

C3_Witness == pc = "returned" /\ ConnectTimedOut /\ branch = "timeout"

\* the exception in flight is a transport failure (an OSError of any kind)
TransportFailure == exc # NoExc /\ SubClass(exc.type, "OSError")

\* the failure is the connect step exceeding its time
EstablishmentTimeout ==
    failed_at = "connect" /\ exc \in {SocketTimeout, ETimedOut}

\* C4: every transport failure other than a connection-establishment timeout,
\* a failed write after a successful connect included, is returned in the
\* network-error category.
C4_OtherFailuresAreNetworkErrors ==
    (pc = "returned" /\ TransportFailure /\ ~EstablishmentTimeout) =>
        (result.success = FALSE /\ branch = "socket")

\* the count a success message reports
ReportedCount(message) == SubSeq(message, 6, Len(message) - 2)

\* C5: success is returned only when the socket was connected, the one send
\* handed the whole stream to the transport and nothing raised; the message
\* then reports the decimal digits of the requested count.
C5_SuccessMeansSent ==
    result.success =>
        /\ s # 0
        /\ sockets[s].connected
        /\ sockets[s].sends = 1
        /\ Len(full_command_string) > 0
        /\ handed = Len(full_command_string)
        /\ exc = NoExc
        /\ failed_at = "none"
        /\ IntParses(ReportedCount(result.message))
        /\ IntValue(ReportedCount(result.message)) = IntValue(input_value)

C5_Witness == pc = "returned" /\ result.success /\ n >= 10

\* C6: once control has left the with block (on the way to a return, or
\* returned), no socket is open, whichever step failed.
C6_SocketClosedOnReturn ==
    pc \in {"return", "except", "returned", "idle"} =>
        \A k \in 1..Len(sockets) : sockets[k].state = "closed"

\* a call whose write failed has returned
C6_Witness ==
    pc = "returned" /\ failed_at = "send" /\ s # 0 /\ sockets[s].state = "closed"

\* the steps inside print_labels
InCall == {"build", "socket", "connect", "send", "exit", "return", "except"}

\* C7: no exception raised while building, connecting or sending leaves
\* print_labels: an exception in flight is always taken by an except clause,
\* and a returned failure is in exactly one of the three categories, its message
\* being that category's.
C7_NeverRaises ==
    /\ callback_exc \in {"none", "ValueError"}
    /\ pc = "except" => ENABLED Except
    /\ pc = "returned" =>
          /\ result.success <=> (branch = "success")
          /\ result.success <=> (exc = NoExc)
          /\ branch \in {"success", "timeout", "socket", "generic"}
          /\ (branch = "timeout") <=> (result.message = TimeoutMessage)
          /\ (branch = "socket") <=>
                (SubSeq(result.message, 1, 3) = <<"Socket", "error", ":">>)
          /\ (branch = "generic") <=>
                (SubSeq(result.message, 1, 5)
                    = <<"An", "unexpected", "error", "occurred", ":">>)

\* a failure that is no socket error has been returned
C7_Witness == pc = "returned" /\ branch = "generic" /\ exc = OutOfMemory

\* connection attempts and sends of the current call
CallConnects == IF s = 0 THEN 0 ELSE sockets[s].connects
CallSends == IF s = 0 THEN 0 ELSE sockets[s].sends

\* C8 as stated: every call that returns made exactly one connection attempt.
C8_Original == pc = "returned" => CallConnects = 1

\* C8 amended: a call makes at most one connection attempt and at most one
\* send, exactly one attempt once its socket exists and the call has left the
\* with block, none when building or creating the socket failed, and no send
\* after a failed connect; each call builds its stream anew and uses a socket
\* created in that call, every earlier socket being closed.
C8_OneAttemptPerCall ==
    /\ \A k \in 1..Len(sockets) : sockets[k].connects <= 1 /\ sockets[k].sends <= 1
    /\ Len(sockets) <= calls
    /\ s # 0 => (s = Len(sockets) /\ \A k \in 1..(s - 1) : sockets[k].state = "closed")
    /\ pc \in {"build", "socket"} => s = 0
    /\ pc = "build" => full_command_string = <<>>
    /\ pc \in {"return", "except", "returned"} =>
          /\ (s # 0) => CallConnects = 1
          /\ (s = 0) <=> (failed_at \in {"build", "socket"})
          /\ failed_at = "connect" => CallSends = 0
          /\ failed_at = "send" => CallSends = 1

\* a second call has failed to connect, on its own socket
C8_Witness ==
    pc = "returned" /\ calls = 2 /\ s = 2 /\ failed_at = "connect" /\ CallConnects = 1

\* the text is a decimal numeral of an integer >= 1
PositiveNumeral(str) == IntParses(str) /\ IntValue(str) >= 1

\* C9: start_printing answers every input that is no positive whole number
\* with the error status and without raising, and print_labels runs only
\* with n >= 1.
C9_RejectsInvalidInput ==
    /\ (calls > 0 /\ ~PositiveNumeral(input_value)) =>
          (pc = "idle" /\ status_label = Status(StatusInvalid) /\ callback_exc = "none")
    /\ pc \in InCall => n >= 1
    /\ n = 0 => (s = 0 /\ full_command_string = <<>>)

\* C10: once a failed call is displayed, the status shown is the one of the
\* category print_labels returned in.
C10_DisplayMatchesBranch ==
    (pc = "idle" /\ branch \in {"timeout", "socket", "generic"}) =>
        /\ (branch = "timeout") <=> (status_label = Status(StatusTimeout))
        /\ (branch = "socket") <=> (status_label = Status(StatusNetwork))
        /\ (branch = "generic") <=> (status_label = Status(StatusUnexpected))

====
